---------------------------- MODULE Spec2Model ----------------------------
(***************************************************************************)
(* Model of the TrustedWork ActionBoard core: the memory search hook, the  *)
(* Corpus Callosum message client, the MCP status service, the layout      *)
(* persistence hook and the ActionBoard controller. Each subsystem has its *)
(* own specification (SpecSearch, SpecMessages, SpecStatus, SpecLayout,    *)
(* SpecBoard) over its own group of variables; the other groups stay at    *)
(* their initial value.                                                    *)
(***************************************************************************)
EXTENDS Integers, Sequences, FiniteSets, TLC

VARIABLES
    \* useHippocamp (src/src/hooks/useHippocamp.ts)
    searchResults,        \* useState<HippocampSearchResult | null>
    isSearching,          \* useState(false)
    hippocampConnected,   \* useHippocamp's isConnected
    abortControllerRef,   \* id of the current AbortController, 0 = null
    abortedControllers,   \* controllers on which abort() was called
    searchPending,        \* search() calls suspended at `await searchMemories`
    nextSearchId,         \* id the next search() call gets
    searchRequests,       \* number of fetches searchMemories has issued
    \* useCorpusCallosum + CorpusCallosumService
    messages,             \* useState<CorpusCallosumMessage[]>([])
    ccIsLoading,          \* useCorpusCallosum's isLoading
    ccIsConnected,        \* useCorpusCallosum's isConnected
    ccError,              \* useCorpusCallosum's error
    isMountedRef,         \* useCorpusCallosum's isMountedRef.current
    fetchPending,         \* per channel, the fetchMessages calls suspended at
                          \* `await getMessages(channel, 50)`
    fetchesStarted,       \* number of fetchMessages calls so far
    getMessagesReturned,  \* the value getMessages returned last (Null before)
    backendRecords,       \* the records the message backend answers a GET with
    sendPending,          \* sendMessage calls of the hook suspended at
                          \* `await corpusCallosum.sendMessage(params)`
    sendsStarted,         \* number of sendMessage calls so far
    lastSend,             \* the sendMessage call that settled last: the outcome of
                          \* its POST and how its promise settled
    sentTo,               \* per record the backend stored for a send, the toLobe
                          \* the hook's caller gave
    \* MCPStatusService (src/src/hooks/useCorpusCallosum.ts, lines 136-375)
    servers,              \* Map<string, MCPServer>: status, lastChecked, error
    listeners,            \* Set of subscribed listeners
    lastSeen,             \* per listener, the snapshot it was last called with
    checks,               \* checkServer calls suspended at `await healthCheck`
    checkCalls,           \* per caller, its last checkServer / checkAllServers call:
                          \* which it is and whether it is running, resolved or rejected
    history,              \* which history of the service a behaviour keeps:
                          \* "none", "outcomes" (settled) or "calls" (notified)
    settled,              \* history: the check that settled last, how its request
                          \* ended and how the checkServer call went on
    notified,             \* history: per listener, how often the latest step called it
    \* localStorage and the dockview panel manager (DockviewApi)
    storage,              \* localStorage.getItem(STORAGE_KEY)
    dockPanels,           \* per panel id, how many panels of that id the manager holds
    arrangement,          \* how the user has the panels arranged
    \* useLayoutPersistence (src/src/hooks/useLayoutPersistence.ts)
    saveTimeoutRef,       \* saveTimeoutRef.current: a timer id, 0 = null
    timers,               \* pending setTimeout timers: id and time left to run
    disposableRef,        \* disposableRef.current: a subscription id, 0 = null
    subs,                 \* per setupAutoSave call, the state of its subscription
    loaded,               \* the last loadLayout call: what it read and returned
    sinceCall,            \* time since the last saveLayout call (saturating)
    burstCalls,           \* saveLayout calls in the current burst: 0, 1 or 2 (more)
    writesInBurst,        \* storage writes of the hook since the burst began
    cancelledBy,          \* the detach function run last since the last
                          \* saveLayout call, 0 = none
    clearedSince,         \* clearLayout ran and saveLayout was not called since
    \* ActionBoard (src/src/components/ActionBoard.tsx)
    apiRef,               \* apiRef.current is set
    boardSubs,            \* per run of the persistence effect, its subscription
    onReadyCalls,         \* number of onReady calls so far
    onReadyResult,        \* the last onReady call: what it read and how it ended
    \* HippocampService (src/src/services/hippocampService.ts)
    clientCall,           \* the method call in flight: its method, the request it
                          \* waits for and the requests it has seen answered
    clientLast,           \* the call that settled last: its requests, the last
                          \* body it got and what its promise settled with
    clientCalls,          \* number of calls so far
    \* The polling effects of useMCPStatus and useCorpusCallosum, per hook
    hookLife,             \* "unmounted", "mounted" or "torn" (torn down)
    hookOptions,          \* the options of the latest render
    hookCleanup,          \* whether the latest run of the effect returned a cleanup
    hookRenders,          \* runs of the polling effect so far
    pollIntervalRef,      \* pollIntervalRef.current: a timer id, 0 = null
    intervals,            \* the setInterval timers that are live
    pollRuns,             \* runs of the interval callback so far
    latePolls             \* history: the callback ran while the hook was torn down

searchVars == <<searchResults, isSearching, hippocampConnected, abortControllerRef,
                abortedControllers, searchPending, nextSearchId, searchRequests>>
messageVars == <<messages, ccIsLoading, ccIsConnected, ccError, isMountedRef,
                 fetchPending, fetchesStarted, getMessagesReturned, backendRecords>>
sendVars == <<sendPending, sendsStarted, lastSend, sentTo>>
statusVars == <<servers, listeners, lastSeen, checks, checkCalls, history, settled, notified>>
dockVars == <<storage, dockPanels, arrangement>>
hookVars == <<saveTimeoutRef, timers, disposableRef, subs, loaded>>
hookHistory == <<sinceCall, burstCalls, writesInBurst, cancelledBy, clearedSince>>
boardVars == <<apiRef, boardSubs, onReadyCalls, onReadyResult>>
layoutVars == <<dockVars, hookVars, hookHistory, boardVars>>
clientVars == <<clientCall, clientLast, clientCalls>>
pollVars == <<hookLife, hookOptions, hookCleanup, hookRenders, pollIntervalRef,
              intervals, pollRuns, latePolls>>
vars == <<searchVars, messageVars, sendVars, statusVars, layoutVars, clientVars, pollVars>>

(***************************************************************************)
(* Bounds of the model.                                                    *)
(***************************************************************************)
MaxSearches == 3      \* search() calls in one behaviour
MaxFetches == 2       \* fetchMessages calls in one behaviour
MaxMsgs == 3          \* records in one backend response
NumServers == 3       \* how many entries of the MCP_SERVERS registry are modelled
MaxSetups == 3        \* setupAutoSave calls in one behaviour
MaxArrangement == 2   \* the arrangements the user can give the panels: 0..MaxArrangement
MaxMounts == 2        \* runs of the controller's initialization in one behaviour
MaxSends == 2         \* sendMessage calls in one behaviour
MaxClientCalls == 2   \* calls of HippocampService methods in one behaviour
MaxRenders == 3       \* runs of a hook's polling effect in one behaviour
MaxPolls == 2         \* runs of a hook's interval callback in one behaviour

Null == [tag |-> "null"]


(***************************************************************************)
(* Memory search: HippocampService.searchMemories and useHippocamp.search  *)
(***************************************************************************)
\* Inputs of search(): the empty query, a whitespace-only one, two real ones.
Queries == {"", " ", "a", "b"}

\* String.prototype.trim on the modelled queries.
Trim(q) == IF q = " " THEN "" ELSE q

\* What the backend can answer to GET /api/search: a 2xx with a body of one of
\* the shapes the service reads (data.results, a bare array, anything else),
\* a non-2xx status, or a transport failure.
SearchOutcomes ==
    { [kind |-> "ok", shape |-> "wrapped", results |-> <<1>>, total |-> 7],
      [kind |-> "ok", shape |-> "wrapped", results |-> <<1, 2>>, total |-> 0],
      [kind |-> "ok", shape |-> "bare", results |-> <<2>>, total |-> 0],
      [kind |-> "ok", shape |-> "other", results |-> <<>>, total |-> 0],
      [kind |-> "http_error", shape |-> "other", results |-> <<>>, total |-> 0],
      [kind |-> "network_error", shape |-> "other", results |-> <<>>, total |-> 0] }

\* The item mapping of searchMemories (id kept, content defaulted).
MapMemory(item) == [id |-> item, content |-> ""]

\* HippocampService.searchMemories: the value its promise resolves with.
\* A non-ok response throws inside the try, a body that is neither
\* {results: [...]} nor an array makes .map throw; both land in the catch.
searchMemories(query, outcome) ==
    IF outcome.kind = "ok" /\ outcome.shape \in {"wrapped", "bare"}
    THEN LET memories == [i \in 1..Len(outcome.results) |-> MapMemory(outcome.results[i])]
         IN  [tag |-> "result",
              memories |-> memories,
              total |-> IF outcome.total /= 0 THEN outcome.total ELSE Len(memories),
              query |-> query]
    ELSE [tag |-> "result", memories |-> <<>>, total |-> 0, query |-> query]

\* useHippocamp.search, up to its first await. The previous controller is
\* aborted and replaced; the new controller's signal is handed to nobody
\* (searchMemories takes no signal and its fetch gets none), so the abort
\* reaches no request.
search(query) ==
    /\ nextSearchId <= MaxSearches
    /\ abortedControllers' =
         IF abortControllerRef /= 0
         THEN abortedControllers \cup {abortControllerRef}
         ELSE abortedControllers
    /\ abortControllerRef' = nextSearchId
    /\ nextSearchId' = nextSearchId + 1
    /\ IF Trim(query) = ""
       THEN /\ searchResults' = Null
            /\ UNCHANGED <<isSearching, searchPending, searchRequests>>
       ELSE /\ isSearching' = TRUE
            /\ searchPending' = searchPending \cup {[id |-> nextSearchId, query |-> query]}
            /\ searchRequests' = searchRequests + 1
            /\ UNCHANGED searchResults
    /\ UNCHANGED hippocampConnected

Search ==
    /\ \E query \in Queries : search(query)
    /\ UNCHANGED <<messageVars, statusVars, layoutVars, sendVars, clientVars, pollVars>>

\* The rest of search() once `await searchMemories(...)` resolves for call c:
\* searchMemories never rejects, so the try branch and the finally run.
SearchMemoriesReturns ==
    /\ \E c \in searchPending, outcome \in SearchOutcomes :
          /\ searchResults' = searchMemories(c.query, outcome)
          /\ hippocampConnected' = TRUE
          /\ isSearching' = FALSE
          /\ searchPending' = searchPending \ {c}
    /\ UNCHANGED <<abortControllerRef, abortedControllers, nextSearchId, searchRequests>>
    /\ UNCHANGED <<messageVars, statusVars, layoutVars, sendVars, clientVars, pollVars>>

\* useHippocamp.clearSearch
ClearSearch ==
    /\ searchResults /= Null
    /\ searchResults' = Null
    /\ UNCHANGED <<isSearching, hippocampConnected, abortControllerRef,
                   abortedControllers, searchPending, nextSearchId, searchRequests>>
    /\ UNCHANGED <<messageVars, statusVars, layoutVars, sendVars, clientVars, pollVars>>

(***************************************************************************)
(* Corpus Callosum messages: mapApiMessage, getMessages, fetchMessages     *)
(***************************************************************************)
Channels == {"general", "dev"}

\* Instants a wire timestamp, or Date.now(), can denote.
Instants == {1, 2}

\* The timestamp field of a wire record (msg.timestamp || msg.created_at):
\* absent, a date string denoting instant t, or a string Date cannot parse.
WireTimestamps ==
    {[k |-> "missing", t |-> 0], [k |-> "garbage", t |-> 0]}
        \cup {[k |-> "date", t |-> i] : i \in Instants}

\* Records other clients left at the backend; their ids play no part here.
WireRecords ==
    {[id |-> 0, from_lobe |-> "claude_code", to_lobe |-> "all", timestamp |-> ts] :
        ts \in WireTimestamps}

RECURSIVE SeqsUpTo(_, _)
SeqsUpTo(S, n) ==
    IF n = 0 THEN {<<>>}
    ELSE LET shorter == SeqsUpTo(S, n - 1)
         IN  shorter \cup {Append(s, x) : s \in {r \in shorter : Len(r) = n - 1}, x \in S}

\* What the backend can answer to GET /corpus-callosum/messages: a 2xx with
\* its records in the order it holds them, a non-2xx status, or a transport
\* failure.
MessageOutcomes ==
    {[kind |-> "ok", records |-> backendRecords],
     [kind |-> "http_error", records |-> <<>>],
     [kind |-> "network_error", records |-> <<>>]}

\* String.replace("claude_", "").replace("_agent", "") on the wire names.
StripLobe(s) ==
    CASE s = "claude_desktop" -> "desktop"
      [] s = "claude_code" -> "code"
      [] s = "claude_ember" -> "ember"
      [] s = "ember_agent" -> "ember"
      [] s = "claude_" -> ""
      [] OTHER -> s

\* new Date(msg.timestamp || msg.created_at || Date.now()): an unparseable
\* string gives an Invalid Date, whose getTime() is NaN (valid = FALSE).
NewDate(ts, now) ==
    CASE ts.k = "date" -> [valid |-> TRUE, t |-> ts.t]
      [] ts.k = "missing" -> [valid |-> TRUE, t |-> now]
      [] OTHER -> [valid |-> FALSE, t |-> 0]

mapApiMessage(msg, now) ==
    [id |-> msg.id,
     from_lobe |-> IF StripLobe(msg.from_lobe) = "" THEN "code" ELSE StripLobe(msg.from_lobe),
     to_lobe |-> IF StripLobe(msg.to_lobe) = "" THEN "all" ELSE StripLobe(msg.to_lobe),
     timestamp |-> NewDate(msg.timestamp, now)]

\* The comparator of getMessages, a.timestamp.getTime() - b.timestamp.getTime(),
\* as Array.prototype.sort reads it: a NaN result counts as +0.
SortCompare(a, b) ==
    IF a.timestamp.valid /\ b.timestamp.valid
    THEN a.timestamp.t - b.timestamp.t
    ELSE 0

RECURSIVE InsertSorted(_, _)
InsertSorted(x, s) ==
    IF s = <<>> THEN <<x>>
    ELSE IF SortCompare(Head(s), x) <= 0
         THEN <<Head(s)>> \o InsertSorted(x, Tail(s))
         ELSE <<x>> \o s

RECURSIVE StableSort(_)
StableSort(s) ==
    IF s = <<>> THEN <<>>
    ELSE InsertSorted(s[Len(s)], StableSort(SubSeq(s, 1, Len(s) - 1)))

\* ECMAScript's "consistent comparator" on the elements of s: "compares
\* equal" and "compares less" are transitive.
ConsistentComparator(s) ==
    \A i, j, k \in 1..Len(s) :
        /\ (SortCompare(s[i], s[j]) = 0 /\ SortCompare(s[j], s[k]) = 0)
               => SortCompare(s[i], s[k]) = 0
        /\ (SortCompare(s[i], s[j]) < 0 /\ SortCompare(s[j], s[k]) = 0)
               => SortCompare(s[i], s[k]) < 0
        /\ (SortCompare(s[i], s[j]) = 0 /\ SortCompare(s[j], s[k]) < 0)
               => SortCompare(s[i], s[k]) < 0

\* Array.prototype.sort(comparefn): the stable sorted order when comparefn
\* is consistent on the elements, and otherwise an order the engine chooses
\* (ECMAScript leaves it implementation-defined): any permutation.
SortOutcomes(s) ==
    IF ConsistentComparator(s)
    THEN {StableSort(s)}
    ELSE {[i \in 1..Len(s) |-> s[p[i]]] : p \in Permutations(1..Len(s))}

\* CorpusCallosumService.getMessages: the values its promise can resolve
\* with. now is what Date.now() reads while the records are mapped.
getMessages(outcome, now) ==
    IF outcome.kind = "ok"
    THEN SortOutcomes([i \in 1..Len(outcome.records) |-> mapApiMessage(outcome.records[i], now)])
    ELSE {<<>>}

\* useCorpusCallosum.fetchMessages, up to `await getMessages(channel, 50)`.
FetchMessages ==
    /\ fetchesStarted < MaxFetches
    /\ \E channel \in Channels :
          fetchPending' = [fetchPending EXCEPT ![channel] = @ + 1]
    /\ fetchesStarted' = fetchesStarted + 1
    /\ UNCHANGED <<messages, ccIsLoading, ccIsConnected, ccError, isMountedRef,
                   getMessagesReturned, backendRecords>>
    /\ UNCHANGED <<searchVars, statusVars, layoutVars, sendVars, clientVars, pollVars>>

\* The rest of fetchMessages once getMessages resolves: getMessages never
\* rejects, so the try branch and the finally run.
GetMessagesReturns ==
    /\ \E channel \in Channels, outcome \in MessageOutcomes, now \in Instants :
          \E result \in getMessages(outcome, now) :
             /\ fetchPending[channel] > 0
             /\ fetchPending' = [fetchPending EXCEPT ![channel] = @ - 1]
             /\ getMessagesReturned' =
                    [tag |-> "returned", value |-> result, outcome |-> outcome.kind]
             /\ IF isMountedRef
                THEN /\ messages' = result
                     /\ ccIsConnected' = TRUE
                     /\ ccError' = Null
                     /\ ccIsLoading' = FALSE
                ELSE UNCHANGED <<messages, ccIsConnected, ccError, ccIsLoading>>
    /\ UNCHANGED <<isMountedRef, fetchesStarted, backendRecords>>
    /\ UNCHANGED <<searchVars, statusVars, layoutVars, sendVars, clientVars, pollVars>>

\* The cleanup of the mount effect of useCorpusCallosum.
Unmount ==
    /\ isMountedRef
    /\ isMountedRef' = FALSE
    /\ UNCHANGED <<messages, ccIsLoading, ccIsConnected, ccError, fetchPending,
                   fetchesStarted, getMessagesReturned, backendRecords>>
    /\ UNCHANGED <<searchVars, statusVars, layoutVars, sendVars, clientVars, pollVars>>

(***************************************************************************)
(* Sending: toApiLobe, CorpusCallosumService.sendMessage and the hook's    *)
(* sendMessage.                                                            *)
(***************************************************************************)
\* type LobeId = "ember" | "code" | "jim"
LobeIds == {"ember", "code", "jim"}
\* const CURRENT_LOBE: LobeId = "code": the lobe of the singleton service.
CURRENT_LOBE == "code"
\* What the hook's caller can give as toLobe: a lobe or nothing.
SendTargets == LobeIds \cup {"undefined"}

\* toApiLobe(lobe): mapping[lobe] || lobe.
toApiLobe(lobe) ==
    CASE lobe = "ember" -> "claude_desktop"
      [] lobe = "code" -> "claude_code"
      [] lobe = "jim" -> "user_carbon"
      [] OTHER -> lobe

\* The body sendMessage posts.
PostBody(params) ==
    [from_lobe |-> toApiLobe(CURRENT_LOBE),
     to_lobe |-> IF params.to_lobe /= "undefined" THEN toApiLobe(params.to_lobe) ELSE "all"]

\* The instant the backend stamps a record it stores with.
BackendNow == CHOOSE t \in Instants : \A u \in Instants : u <= t

\* Outcomes of POST /corpus-callosum/messages.
SendOutcomes == {"ok", "http_error", "network_error"}

\* sendMessage without its test of response.ok.
sendMessageIgnoresStatus(outcome) ==
    [kind |-> "return", value |-> outcome /= "network_error"]

\* CorpusCallosumService.sendMessage: true when the backend answered 2xx;
\* a non-2xx status is thrown and, like a transport failure, caught.
sendMessage(outcome) == [kind |-> "return", value |-> outcome = "ok"]

\* The hook's sendMessage(content, toLobe), up to
\* `await corpusCallosum.sendMessage(params)`.
SendMessage ==
    /\ sendsStarted < MaxSends
    /\ \E toLobe \in SendTargets :
          sendPending' = sendPending \cup
              {[call |-> sendsStarted + 1, params |-> [to_lobe |-> toLobe]]}
    /\ sendsStarted' = sendsStarted + 1
    /\ UNCHANGED <<lastSend, sentTo, messageVars, searchVars, statusVars, layoutVars,
                   clientVars, pollVars>>

\* The backend's answer to the POST arrives and the hook's sendMessage runs
\* on: after a success it calls fetchMessages, which suspends at its own
\* await. A backend that answers 2xx has stored the record.
SendMessageReturns ==
    /\ \E c \in sendPending, outcome \in SendOutcomes :
          LET success == sendMessage(outcome)
              id == Len(backendRecords) + 1
              record == [id |-> id,
                         from_lobe |-> PostBody(c.params).from_lobe,
                         to_lobe |-> PostBody(c.params).to_lobe,
                         timestamp |-> [k |-> "date", t |-> BackendNow]]
          IN  /\ sendPending' = sendPending \ {c}
              /\ lastSend' = [outcome |-> outcome, result |-> success]
              /\ IF outcome = "ok"
                 THEN /\ backendRecords' = Append(backendRecords, record)
                      /\ sentTo' = sentTo \cup {[id |-> id, to_lobe |-> c.params.to_lobe]}
                 ELSE UNCHANGED <<backendRecords, sentTo>>
              /\ IF success.kind = "return" /\ success.value
                 THEN \E channel \in Channels :
                         fetchPending' = [fetchPending EXCEPT ![channel] = @ + 1]
                 ELSE UNCHANGED fetchPending
    /\ UNCHANGED <<messages, ccIsLoading, ccIsConnected, ccError, isMountedRef,
                   fetchesStarted, getMessagesReturned, sendsStarted>>
    /\ UNCHANGED <<searchVars, statusVars, layoutVars, clientVars, pollVars>>

InitSend ==
    /\ sendPending = {}
    /\ sendsStarted = 0
    /\ lastSend = Null
    /\ sentTo = {}

(***************************************************************************)
(* MCP status service: HEALTH_CHECKS and MCPStatusService                  *)
(***************************************************************************)
\* MCP_SERVERS, in registry order (src/src/types/mcp.ts).
MCP_SERVERS ==
    <<"hippocamp-console", "fireworks-ws", "neo4j-ep1", "neo4j-nessie", "matrix-synapse">>

ServerOrder == SubSeq(MCP_SERVERS, 1, NumServers)
ServerIds == {ServerOrder[i] : i \in 1..NumServers}

Undefined == "undefined"

\* What `new Date()` gives: the instant itself decides nothing in the service.
ADate == "date"

\* How the request of a health check can end.
ProbeOutcomes == {"ok", "http_error", "timeout", "network_error"}

\* error.message of what fetch rejects with.
ErrorMessage(outcome) ==
    IF outcome = "timeout" THEN "The operation timed out" ELSE "Failed to fetch"

\* A health check that takes every response for success, response.ok unread.
HealthCheckAnyResponse(id, outcome) ==
    IF outcome \in {"ok", "http_error"}
    THEN [kind |-> "result", status |-> "connected", error |-> Undefined]
    ELSE [kind |-> "result", status |-> "disconnected",
          error |-> IF id \in {"neo4j-ep1", "neo4j-nessie"}
                    THEN "Cannot reach via Hippocamp API"
                    ELSE ErrorMessage(outcome)]

\* A health check without its catch: what fetch throws escapes it.
HealthCheckUncaught(id, outcome) ==
    IF outcome = "ok" THEN [kind |-> "result", status |-> "connected", error |-> Undefined]
    ELSE IF outcome = "http_error"
         THEN [kind |-> "result", status |-> "error", error |-> Undefined]
         ELSE [kind |-> "throw", status |-> "disconnected", error |-> ErrorMessage(outcome)]

\* HEALTH_CHECKS[id](endpoint): every entry catches what its fetch throws,
\* so it always returns a HealthCheckResult.
HealthCheck(id, outcome) ==
    IF outcome = "ok" THEN [kind |-> "result", status |-> "connected", error |-> Undefined]
    ELSE IF outcome = "http_error"
         THEN [kind |-> "result", status |-> "error", error |-> Undefined]
         ELSE [kind |-> "result", status |-> "disconnected",
               error |-> IF id \in {"neo4j-ep1", "neo4j-nessie"}
                         THEN "Cannot reach via Hippocamp API"
                         ELSE ErrorMessage(outcome)]

\* MCPStatusService.getServers: Array.from(this.servers.values()).
getServers(svrs) == [i \in 1..NumServers |-> svrs[ServerOrder[i]]]

\* A filter that also counts probes whose check is in flight.
IsConnectedOrConnecting(s) == s.status \in {"connected", "connecting"}

\* The filter of getStats: s.status === "connected".
IsConnected(s) == s.status = "connected"

\* MCPStatusService.getStats
getStats ==
    LET connected == Len(SelectSeq(getServers(servers), IsConnected))
    IN  [connected |-> connected,
         total |-> Len(getServers(servers)),
         healthy |-> connected >= 2]

\* The calls a step made to the listeners, kept when history = "calls".
Called(n) == notified' = IF history = "calls" THEN n ELSE notified

\* The outcome a settling check had, kept when history = "outcomes".
Settled(c, outcome, result) ==
    settled' = IF history = "outcomes"
               THEN [server |-> c.server, outcome |-> outcome, ended |-> result.kind]
               ELSE settled

\* A notifyListeners that calls nobody.
notifyNoListener(svrs, times) ==
    /\ lastSeen' = lastSeen
    /\ Called([l \in DOMAIN lastSeen |-> 0])

\* MCPStatusService.notifyListeners, run `times` times by the updateServer
\* calls of one step, the map being svrs in the end: every subscribed
\* listener is called each time, last with the new snapshot.
notifyListeners(svrs, times) ==
    /\ lastSeen' = [l \in DOMAIN lastSeen |->
                      IF l \in listeners THEN [tag |-> "servers", value |-> svrs]
                      ELSE lastSeen[l]]
    /\ Called([l \in DOMAIN lastSeen |-> IF l \in listeners THEN times ELSE 0])

\* MCPStatusService.updateServer(id, updates): { ...server, ...updates }.
\* updates names the keys it carries in `keys`.
updateServer(svrs, id, updates) ==
    [svrs EXCEPT ![id] =
        [status |-> IF "status" \in updates.keys THEN updates.status ELSE @.status,
         lastChecked |-> IF "lastChecked" \in updates.keys
                         THEN updates.lastChecked ELSE @.lastChecked,
         error |-> IF "error" \in updates.keys THEN updates.error ELSE @.error]]

\* checkServer without its first update: an update that carries no key.
ConnectingUpdateSkipped ==
    [keys |-> {}, status |-> "connecting", lastChecked |-> Undefined,
     error |-> Undefined]

\* { status: "connecting" }
ConnectingUpdate ==
    [keys |-> {"status"}, status |-> "connecting", lastChecked |-> Undefined,
     error |-> Undefined]

\* An update that carries the status of the result and nothing else of it.
ResultUpdateStatusOnly(result) ==
    [keys |-> {"status"}, status |-> result.status, lastChecked |-> Undefined,
     error |-> Undefined]

\* An update that carries everything of the result but its status.
ResultUpdateWithoutStatus(result) ==
    [keys |-> {"lastChecked", "error"}, status |-> result.status,
     lastChecked |-> ADate, error |-> result.error]

\* { status: result.status, lastChecked: new Date(), error: result.error }
ResultUpdate(result) ==
    [keys |-> {"status", "lastChecked", "error"}, status |-> result.status,
     lastChecked |-> ADate, error |-> result.error]

\* Who calls the service (useMCPStatus): the polling timer, through refresh,
\* and the user, through refresh or checkServer. The timer's calls do not
\* overlap one another (a check times out after 5 s, the timer fires every
\* 30 s), and one call of the user is followed at a time; a call of the one
\* can overlap a call of the other.
CheckCallers == {"poll", "manual"}

\* Caller k has no call in flight.
NextCall(k) == checkCalls[k].state /= "running"

\* MCPStatusService.checkServer(id) called directly, up to its await: the
\* probe becomes `connecting`, the listeners are notified, the request starts.
CheckServer ==
    /\ \E k \in {"manual"}, id \in ServerIds :
          /\ NextCall(k)
          /\ checkCalls' = [checkCalls EXCEPT ![k] = [kind |-> "checkServer", state |-> "running"]]
          /\ servers' = updateServer(servers, id, ConnectingUpdate)
          /\ checks' = checks \cup {[server |-> id, owner |-> k]}
    /\ notifyListeners(servers', 1)
    /\ UNCHANGED <<listeners, history, settled>>
    /\ UNCHANGED <<searchVars, messageVars, layoutVars, sendVars, clientVars, pollVars>>

\* MCPStatusService.checkAllServers, up to `await Promise.all(checks)`: the
\* map calls checkServer for every id, each running up to its own await.
CheckAllServers ==
    /\ \E k \in CheckCallers :
          /\ NextCall(k)
          /\ checkCalls' = [checkCalls EXCEPT ![k] = [kind |-> "checkAllServers", state |-> "running"]]
          /\ checks' = checks \cup {[server |-> id, owner |-> k] : id \in ServerIds}
    /\ servers' = [id \in ServerIds |-> updateServer(servers, id, ConnectingUpdate)[id]]
    /\ notifyListeners(servers', NumServers)
    /\ UNCHANGED <<listeners, history, settled>>
    /\ UNCHANGED <<searchVars, messageVars, layoutVars, sendVars, clientVars, pollVars>>

\* The rest of checkServer once `await healthCheck(server.endpoint)` settles.
\* A health check that rejected would make checkServer reject before its
\* second updateServer, and with it the Promise.all of checkAllServers.
HealthCheckSettles(c) ==
    /\ c \in checks
    /\ \E outcome \in ProbeOutcomes :
          LET result == HealthCheck(c.server, outcome)
          IN  /\ checks' = checks \ {c}
              /\ IF result.kind = "result"
                 THEN /\ servers' = updateServer(servers, c.server, ResultUpdate(result))
                      /\ notifyListeners(servers', 1)
                      /\ checkCalls' =
                           IF checkCalls[c.owner].state = "running"
                              /\ \A d \in checks' : d.owner /= c.owner
                           THEN [checkCalls EXCEPT ![c.owner].state = "resolved"]
                           ELSE checkCalls
                 ELSE /\ UNCHANGED <<servers, lastSeen>>
                      /\ Called([l \in DOMAIN lastSeen |-> 0])
                      /\ checkCalls' = [checkCalls EXCEPT ![c.owner].state = "rejected"]
              /\ Settled(c, outcome, result)
    /\ UNCHANGED <<listeners, history>>
    /\ UNCHANGED <<searchVars, messageVars, layoutVars, sendVars, clientVars, pollVars>>

\* The checks there can be: one per probe and caller.
AllChecks == [server : ServerIds, owner : CheckCallers]

HealthCheckReturns == \E c \in AllChecks : HealthCheckSettles(c)

Listeners == {"l1", "l2"}

\* MCPStatusService.subscribe: the listener is added and called at once.
Subscribe ==
    /\ \E l \in Listeners \ listeners :
          /\ listeners' = listeners \cup {l}
          /\ lastSeen' = [lastSeen EXCEPT ![l] = [tag |-> "servers", value |-> servers]]
          /\ Called([m \in DOMAIN lastSeen |-> IF m = l THEN 1 ELSE 0])
    /\ UNCHANGED <<servers, checks, checkCalls, history, settled>>
    /\ UNCHANGED <<searchVars, messageVars, layoutVars, sendVars, clientVars, pollVars>>

\* The function subscribe returned. The listener's last snapshot is dropped
\* with it, so that any later call of the listener shows.
Unsubscribe ==
    /\ \E l \in listeners :
          /\ listeners' = listeners \ {l}
          /\ lastSeen' = [lastSeen EXCEPT ![l] = Null]
          /\ Called([m \in DOMAIN lastSeen |-> 0])
    /\ UNCHANGED <<servers, checks, checkCalls, history, settled>>
    /\ UNCHANGED <<searchVars, messageVars, layoutVars, sendVars, clientVars, pollVars>>

(***************************************************************************)
(* JavaScript values, JSON text and localStorage.                          *)
(***************************************************************************)
JNull == [t |-> "null"]
JUndefined == [t |-> "undefined"]
\* A property the object does not have.
JAbsent == [t |-> "absent"]
\* {} : an object with no properties.
JEmptyObject == [t |-> "emptyobject"]
\* The grid of a serialized layout: the arrangement and the panels it places.
JGrid(a, refs) == [t |-> "grid", arrangement |-> a, refs |-> refs]
\* The panels entry of a serialized layout; JPanels({}) is the empty one.
JPanels(ids) == [t |-> "panels", ids |-> ids]
\* An object read for its grid and panels properties.
JObj(grid, panels) == [t |-> "object", grid |-> grid, panels |-> panels]

\* JavaScript truthiness: null, undefined, a missing property and the empty
\* string are falsy; every object, the empty one and the empty list too, is
\* truthy.
Truthy(x) ==
    /\ x.t \notin {"null", "undefined", "absent"}
    /\ ~(x.t = "text" /\ "raw" \in DOMAIN x /\ x.raw = "")

\* A string that is the JSON text of value v.
TextOf(v) == [t |-> "text", json |-> v]
\* A string that is no JSON text.
RawText(str) == [t |-> "text", raw |-> str]

\* JSON.stringify drops the properties whose value is undefined.
DropUndefined(x) == IF x.t = "undefined" THEN JAbsent ELSE x

\* A stringify that loses the panels entry.
JSONStringifyWithoutPanels(v) ==
    IF v.t = "object"
    THEN TextOf(JObj(DropUndefined(v.grid), JAbsent))
    ELSE TextOf(v)

JSONStringify(v) ==
    IF v.t = "object"
    THEN TextOf(JObj(DropUndefined(v.grid), DropUndefined(v.panels)))
    ELSE TextOf(v)

\* JSON.parse returns the value the text denotes, or throws a SyntaxError.
JSONParse(text) ==
    IF "json" \in DOMAIN text
    THEN [kind |-> "return", value |-> text.json]
    ELSE [kind |-> "throw"]

Return(v) == [kind |-> "return", value |-> v]

(***************************************************************************)
(* The memory search client: HippocampService.                             *)
(***************************************************************************)
ClientMethods ==
    {"checkHealth", "searchMemories", "getCategories", "getByCategory", "getConversation"}

JArray(items) == [t |-> "array", items |-> items]
JString(str) == [t |-> "string", str |-> str]
JBoolean(b) == [t |-> "boolean", b |-> b]
\* A body that is an object, read for its memories, results and categories.
JBody(memories, results, categories) ==
    [t |-> "object", memories |-> memories, results |-> results,
     categories |-> categories]
\* A body that is no JSON text: response.json() rejects.
NotJson == [t |-> "notjson"]

\* The bodies a 2xx response can carry.
Bodies ==
    { NotJson, JNull, JString("oops"), JArray(<<>>), JArray(<<1>>),
      JBody(JArray(<<1, 2>>), JUndefined, JUndefined),
      JBody(JUndefined, JArray(<<2>>), JUndefined),
      JBody(JUndefined, JUndefined, JArray(<<3>>)),
      JBody(JUndefined, JUndefined, JUndefined) }

\* How a fetch can end: it rejects, or it resolves with a non-2xx or a 2xx
\* response.
Responses ==
    {[kind |-> "network_error", body |-> JUndefined],
     [kind |-> "http_error", body |-> JUndefined]}
        \cup {[kind |-> "ok", body |-> b] : b \in Bodies}

Resolve(v) == [kind |-> "resolve", value |-> v]

\* v[key] for a value that is not null: a property of an object, undefined
\* on a string or an array.
Get(v, key) == IF v.t = "object" THEN v[key] ELSE JUndefined

\* The first truthy value of a chain a || b || ... || last.
RECURSIVE FirstTruthy(_)
FirstTruthy(chain) ==
    IF Len(chain) = 1 \/ Truthy(Head(chain)) THEN Head(chain)
    ELSE FirstTruthy(Tail(chain))

\* A body on which `await response.json()` rejects or the first property
\* read throws a TypeError: the catch of the method takes over.
Throws(body) == body \in {NotJson, JNull}

\* checkHealth: response.ok, false from the catch.
checkHealth(resp) == Resolve(JBoolean(resp.kind = "ok"))

\* The response as searchMemories reads it: data.results, a bare array, or
\* a value whose .map throws.
AsSearchOutcome(resp) ==
    IF resp.kind = "ok" /\ resp.body.t = "array"
    THEN [kind |-> "ok", shape |-> "bare", results |-> resp.body.items, total |-> 0]
    ELSE IF resp.kind = "ok" /\ ~Throws(resp.body) /\ Get(resp.body, "results").t = "array"
    THEN [kind |-> "ok", shape |-> "wrapped",
          results |-> resp.body.results.items, total |-> 0]
    ELSE [kind |-> resp.kind, shape |-> "other", results |-> <<>>, total |-> 0]

\* getCategories: an array body is mapped, else data.categories is returned
\* as it is if truthy, else []; [] from the catch.
getCategories(resp) ==
    IF resp.kind /= "ok" \/ Throws(resp.body) THEN Resolve(JArray(<<>>))
    ELSE IF resp.body.t = "array"
    THEN Resolve(JArray([i \in 1..Len(resp.body.items) |->
                            [name |-> resp.body.items[i], count |-> 0]]))
    ELSE IF Truthy(Get(resp.body, "categories"))
    THEN Resolve(Get(resp.body, "categories"))
    ELSE Resolve(JArray(<<>>))

\* getByCategory after one of its fetches has settled. A fetch that rejects
\* lands in the catch; a non-2xx primary response sends the alternative
\* request; a 2xx response is read with || chains that end in the body
\* itself.
getByCategory(stage, resp) ==
    IF resp.kind = "network_error"
    THEN [next |-> "settle", result |-> Resolve(JArray(<<>>))]
    ELSE IF resp.kind = "http_error"
    THEN IF stage = "primary"
         THEN [next |-> "request", result |-> Null]
         ELSE [next |-> "settle", result |-> Resolve(JArray(<<>>))]
    ELSE IF Throws(resp.body)
    THEN [next |-> "settle", result |-> Resolve(JArray(<<>>))]
    ELSE [next |-> "settle",
          result |-> Resolve(FirstTruthy(
              IF stage = "primary"
              THEN <<Get(resp.body, "memories"), Get(resp.body, "results"),
                     resp.body, JArray(<<>>)>>
              ELSE <<Get(resp.body, "results"), resp.body, JArray(<<>>)>>))]

\* getConversation: any body that is not null becomes a memory, with
\* data.id || id and data.content || data.text || ""; null from the catch.
getConversation(id, resp) ==
    IF resp.kind /= "ok" \/ Throws(resp.body) THEN Resolve(JNull)
    ELSE Resolve([t |-> "memory", id |-> id, content |-> ""])

\* What the call does when the request it waits for has settled.
Continue(method, stage, resp) ==
    CASE method = "checkHealth" -> [next |-> "settle", result |-> checkHealth(resp)]
      [] method = "searchMemories" ->
            [next |-> "settle",
             result |-> Resolve(searchMemories("a", AsSearchOutcome(resp)))]
      [] method = "getCategories" -> [next |-> "settle", result |-> getCategories(resp)]
      [] method = "getByCategory" -> getByCategory(stage, resp)
      [] method = "getConversation" ->
            [next |-> "settle", result |-> getConversation("c1", resp)]

\* A method of the service is called: it runs up to its first fetch.
ClientCall ==
    /\ clientCall = Null
    /\ clientCalls < MaxClientCalls
    /\ \E method \in ClientMethods :
          clientCall' = [method |-> method, stage |-> "primary", trail |-> <<>>]
    /\ clientCalls' = clientCalls + 1
    /\ UNCHANGED clientLast
    /\ UNCHANGED <<searchVars, messageVars, sendVars, statusVars, layoutVars, pollVars>>

\* The fetch the call waits for settles, and the call runs on to its next
\* fetch or to its end.
ClientResponds ==
    /\ clientCall /= Null
    /\ \E resp \in Responses :
          LET trail == Append(clientCall.trail,
                              [request |-> clientCall.stage, kind |-> resp.kind])
              step == Continue(clientCall.method, clientCall.stage, resp)
          IN  IF step.next = "request"
              THEN /\ clientCall' = [clientCall EXCEPT !.stage = "secondary",
                                                       !.trail = trail]
                   /\ UNCHANGED clientLast
              ELSE /\ clientCall' = Null
                   /\ clientLast' = [method |-> clientCall.method, trail |-> trail,
                                     body |-> resp.body, result |-> step.result]
    /\ UNCHANGED clientCalls
    /\ UNCHANGED <<searchVars, messageVars, sendVars, statusVars, layoutVars, pollVars>>

InitClient ==
    /\ clientCall = Null
    /\ clientLast = Null
    /\ clientCalls = 0

(***************************************************************************)
(* The polling effects of useMCPStatus and useCorpusCallosum.              *)
(***************************************************************************)
PollHooks == {"useMCPStatus", "useCorpusCallosum"}

\* The options a render can bring: autoRefresh and pollInterval for
\* useMCPStatus; enabled, pollInterval and channel for useCorpusCallosum.
\* Each of them is a dependency of the hook's polling effect (the channel
\* through fetchMessages).
HookOptions(h) ==
    IF h = "useMCPStatus"
    THEN [enabled : BOOLEAN, interval : {0, 30000}, channel : {"none"}]
    ELSE [enabled : BOOLEAN, interval : {5000}, channel : {"general", "ops"}]

\* Whether the body of the effect reaches its setInterval.
SetsInterval(h, o) ==
    IF h = "useMCPStatus" THEN o.enabled /\ o.interval > 0 ELSE o.enabled

\* Whether the body of the effect returns a cleanup: useCorpusCallosum
\* returns early, with none, when it is not enabled.
ReturnsCleanup(h, o) == h = "useMCPStatus" \/ o.enabled

\* The body of the polling effect, from its setInterval on: the new timer, if
\* any, is kept in pollIntervalRef.
pollEffect(h, o, ref, tms, id) ==
    IF SetsInterval(h, o)
    THEN [ref |-> id, intervals |-> tms \cup {[hook |-> h, id |-> id]}]
    ELSE [ref |-> ref, intervals |-> tms]

\* A cleanup that clears nothing.
pollCleanupKeepsTimer(h, ref, tms) == tms

\* The cleanup of the polling effect: clearInterval(pollIntervalRef.current)
\* if it is set.
pollCleanup(h, ref, tms) ==
    IF ref /= 0 THEN {tm \in tms : ~(tm.hook = h /\ tm.id = ref)} ELSE tms

\* The effect runs with options o: the cleanup of the run before it, if that
\* run returned one, then the body.
RunPollEffect(h, o) ==
    LET cleared == IF hookCleanup[h]
                   THEN pollCleanup(h, pollIntervalRef[h], intervals)
                   ELSE intervals
        r == pollEffect(h, o, pollIntervalRef[h], cleared, hookRenders[h] + 1)
    IN  /\ pollIntervalRef' = [pollIntervalRef EXCEPT ![h] = r.ref]
        /\ intervals' = r.intervals
        /\ hookCleanup' = [hookCleanup EXCEPT ![h] = ReturnsCleanup(h, o)]
        /\ hookOptions' = [hookOptions EXCEPT ![h] = o]
        /\ hookRenders' = [hookRenders EXCEPT ![h] = @ + 1]

\* The hook mounts, or mounts again after a teardown that kept its refs
\* (StrictMode).
PollMount ==
    /\ \E h \in PollHooks :
          /\ hookLife[h] /= "mounted"
          /\ hookRenders[h] < MaxRenders
          /\ \E o \in HookOptions(h) :
                /\ hookLife[h] = "torn" => o = hookOptions[h]
                /\ RunPollEffect(h, o)
          /\ hookLife' = [hookLife EXCEPT ![h] = "mounted"]
    /\ UNCHANGED <<pollRuns, latePolls>>
    /\ UNCHANGED <<searchVars, messageVars, sendVars, statusVars, layoutVars, clientVars>>

\* A render with other options: the dependencies of the effect changed, so
\* React runs its cleanup and then the effect again.
PollRerender ==
    /\ \E h \in PollHooks :
          /\ hookLife[h] = "mounted"
          /\ hookRenders[h] < MaxRenders
          /\ \E o \in HookOptions(h) \ {hookOptions[h]} : RunPollEffect(h, o)
    /\ UNCHANGED <<hookLife, pollRuns, latePolls>>
    /\ UNCHANGED <<searchVars, messageVars, sendVars, statusVars, layoutVars, clientVars>>

\* The hook is torn down: React runs the cleanup of the latest run.
PollTeardown ==
    /\ \E h \in PollHooks :
          /\ hookLife[h] = "mounted"
          /\ hookLife' = [hookLife EXCEPT ![h] = "torn"]
          /\ intervals' = IF hookCleanup[h]
                          THEN pollCleanup(h, pollIntervalRef[h], intervals)
                          ELSE intervals
          /\ hookCleanup' = [hookCleanup EXCEPT ![h] = FALSE]
    /\ UNCHANGED <<hookOptions, hookRenders, pollIntervalRef, pollRuns, latePolls>>
    /\ UNCHANGED <<searchVars, messageVars, sendVars, statusVars, layoutVars, clientVars>>

\* A live interval timer fires: the callback (refresh, fetchMessages) runs.
PollTick ==
    /\ \E tm \in intervals :
          /\ pollRuns[tm.hook] < MaxPolls
          /\ pollRuns' = [pollRuns EXCEPT ![tm.hook] = @ + 1]
          /\ latePolls' = [latePolls EXCEPT ![tm.hook] = @ \/ hookLife[tm.hook] = "torn"]
    /\ UNCHANGED <<hookLife, hookOptions, hookCleanup, hookRenders, pollIntervalRef,
                   intervals>>
    /\ UNCHANGED <<searchVars, messageVars, sendVars, statusVars, layoutVars, clientVars>>

InitPoll ==
    /\ hookLife = [h \in PollHooks |-> "unmounted"]
    /\ hookOptions = [h \in PollHooks |-> Null]
    /\ hookCleanup = [h \in PollHooks |-> FALSE]
    /\ hookRenders = [h \in PollHooks |-> 0]
    /\ pollIntervalRef = [h \in PollHooks |-> 0]
    /\ intervals = {}
    /\ pollRuns = [h \in PollHooks |-> 0]
    /\ latePolls = [h \in PollHooks |-> FALSE]

(***************************************************************************)
(* The panel manager (DockviewApi), an external collaborator.              *)
(***************************************************************************)
MAIN_WORKSPACE == "main-workspace"
\* DEFAULT_PANELS, in the order createDefaultLayout adds them.
DEFAULT_PANELS == <<"agents", "federation", "corpus-callosum">>
PanelIds == {MAIN_WORKSPACE} \cup {DEFAULT_PANELS[i] : i \in DOMAIN DEFAULT_PANELS}
Arrangements == 0..MaxArrangement

NoPanels == [id \in PanelIds |-> 0]
Held(panels) == {id \in PanelIds : panels[id] > 0}
OnePanelEach(ids) == [id \in PanelIds |-> IF id \in ids THEN 1 ELSE 0]

\* api.toJSON(): the serialized layout of what the manager holds.
toJSON(panels, a) == JObj(JGrid(a, Held(panels)), JPanels(Held(panels)))

\* api.addPanel refuses an id the manager already holds: it throws.
addPanel(panels, id) ==
    IF panels[id] > 0
    THEN [kind |-> "throw", panels |-> panels]
    ELSE [kind |-> "return", panels |-> [panels EXCEPT ![id] = @ + 1]]

\* What api.fromJSON accepts: a grid and a panels entry, every panel the
\* grid places being one of the panels.
WellFormed(v) ==
    /\ v.t = "object"
    /\ v.grid.t = "grid"
    /\ v.panels.t = "panels"
    /\ v.grid.refs \subseteq v.panels.ids
    /\ v.panels.ids /= {}

\* api.fromJSON(v): replaces what the manager holds by the layout v, or
\* throws on malformed input; what it leaves behind when it throws is not
\* specified: nothing, or some of the panels of v.
fromJSON(panels, a, v) ==
    IF WellFormed(v)
    THEN {[kind |-> "return", panels |-> OnePanelEach(v.panels.ids),
           arrangement |-> v.grid.arrangement]}
    ELSE {[kind |-> "throw", panels |-> OnePanelEach(left), arrangement |-> a] :
             left \in IF v.t = "object" /\ v.panels.t = "panels"
                      THEN SUBSET v.panels.ids ELSE {{}}}

\* What localStorage can hold under STORAGE_KEY when the program starts.
StoredBlobs ==
    { JNull,                                              \* nothing stored
      RawText("{not json"),
      RawText(""),
      TextOf(JNull),                                      \* "null"
      TextOf(JObj(JAbsent, JAbsent)),                     \* "{}"
      TextOf(JObj(JEmptyObject, JAbsent)),                \* {grid:{}}
      TextOf(JObj(JAbsent, JPanels({}))),                 \* {panels:[]}
      TextOf(JObj(JEmptyObject, JPanels({}))),            \* {grid:{}, panels:[]}
      TextOf(JObj(JNull, JPanels(PanelIds))),             \* {grid:null, panels:[..]}
      TextOf(JObj(JGrid(0, PanelIds), JPanels({MAIN_WORKSPACE}))),
      JSONStringify(toJSON(OnePanelEach(PanelIds), 0)) }

(***************************************************************************)
(* useLayoutPersistence: debounced save, load, clear, auto-save.           *)
(***************************************************************************)
\* const DEBOUNCE_MS = 1000;
DEBOUNCE_MS == 1000
\* The step by which the model's clock advances.
Tick == DEBOUNCE_MS \div 2
\* Where sinceCall stops counting: the window has passed.
LongAgo == DEBOUNCE_MS + Tick
SubIds == 1..MaxSetups

Min(a, b) == IF a < b THEN a ELSE b

\* A clearTimeout that cancels nothing.
clearTimeoutIgnored(id, tmrs) == tmrs

clearTimeout(id, tmrs) == {tm \in tmrs : tm.id /= id}

\* setTimeout returns an id no pending timer has; it never returns again an
\* id the caller still holds.
FreshTimerId(tmrs, ref) ==
    CHOOSE n \in 1..(Cardinality(tmrs) + 2) :
        n /= ref /\ \A tm \in tmrs : tm.id /= n

\* saveLayout with its clearTimeout left out.
saveLayoutKeepsPending(ref, tmrs) ==
    LET id == FreshTimerId(tmrs, ref)
    IN  [ref |-> id, timers |-> tmrs \cup {[id |-> id, remaining |-> DEBOUNCE_MS]}]

\* saveLayout(api): clears the pending save, if any, and schedules the write
\* DEBOUNCE_MS from now. Gives saveTimeoutRef.current and the pending timers.
saveLayout(ref, tmrs) ==
    LET cleared == IF ref /= 0 THEN clearTimeout(ref, tmrs) ELSE tmrs
        id == FreshTimerId(cleared, ref)
    IN  [ref |-> id, timers |-> cleared \cup {[id |-> id, remaining |-> DEBOUNCE_MS]}]

\* n calls of saveLayout, one after the other.
RECURSIVE saveLayoutTimes(_, _, _)
saveLayoutTimes(n, ref, tmrs) ==
    IF n = 0 THEN [ref |-> ref, timers |-> tmrs]
    ELSE LET r == saveLayout(ref, tmrs) IN saveLayoutTimes(n - 1, r.ref, r.timers)

\* loadLayout without its structural check.
loadLayoutUnvalidated(saved) ==
    IF Truthy(saved)
    THEN LET parsed == JSONParse(saved)
         IN  IF parsed.kind = "throw" THEN Return(JNull) ELSE Return(parsed.value)
    ELSE Return(JNull)

\* loadLayout(): the parsed blob if it has a truthy grid and truthy panels,
\* null otherwise; what JSON.parse throws is caught.
loadLayout(saved) ==
    IF Truthy(saved)
    THEN LET parsed == JSONParse(saved)
         IN  IF parsed.kind = "throw"
             THEN Return(JNull)
             ELSE LET layout == parsed.value
                  IN  IF Truthy(layout) /\ Truthy(layout.grid) /\ Truthy(layout.panels)
                      THEN Return(layout)
                      ELSE Return(JNull)
    ELSE Return(JNull)

\* The cleanup function without its clearTimeout.
cleanupKeepsPending(ref, tmrs) == tmrs

\* The timers left by the function setupAutoSave returns:
\* if (saveTimeoutRef.current) clearTimeout(saveTimeoutRef.current).
cleanupTimers(ref, tmrs) == IF ref /= 0 THEN clearTimeout(ref, tmrs) ELSE tmrs

\* ActionBoard's own saveLayout: writes at once.
ActionBoard_saveLayout(panels, a) == JSONStringify(toJSON(panels, a))

ActiveHookSubs == {i \in SubIds : subs[i] = "active"}
ActiveBoardSubs == {i \in DOMAIN boardSubs : boardSubs[i] = "active"}

\* A timer that is due runs before anything else happens.
Due == \E tm \in timers : tm.remaining = 0

\* Bookkeeping of n saveLayout calls made now: they continue the burst if
\* the previous call is less than DEBOUNCE_MS old, else they start one.
NoteCalls(n) ==
    LET continuing == burstCalls > 0 /\ sinceCall < DEBOUNCE_MS
    IN  /\ burstCalls' = Min(2, IF continuing THEN burstCalls + n ELSE n)
        /\ writesInBurst' = IF continuing THEN writesInBurst ELSE 0
        /\ sinceCall' = 0
        /\ cancelledBy' = 0
        /\ clearedSince' = FALSE

\* The panel manager fires onDidLayoutChange: every subscription of the hook
\* calls saveLayout(api), every subscription of ActionBoard writes at once.
NotifyLayoutChange(panels, a) ==
    LET r == saveLayoutTimes(Cardinality(ActiveHookSubs), saveTimeoutRef, timers)
    IN  /\ saveTimeoutRef' = r.ref
        /\ timers' = r.timers
        /\ IF ActiveHookSubs /= {}
           THEN NoteCalls(Cardinality(ActiveHookSubs))
           ELSE UNCHANGED hookHistory
        /\ storage' = IF ActiveBoardSubs /= {}
                      THEN ActionBoard_saveLayout(panels, a)
                      ELSE storage

otherVars == <<searchVars, messageVars, sendVars, statusVars, clientVars, pollVars>>

\* A direct call of the hook's saveLayout.
SaveLayoutCall ==
    /\ ~Due
    /\ LET r == saveLayout(saveTimeoutRef, timers)
       IN  saveTimeoutRef' = r.ref /\ timers' = r.timers
    /\ NoteCalls(1)
    /\ UNCHANGED <<dockVars, disposableRef, subs, loaded, boardVars, otherVars>>

\* The user rearranges the panels.
LayoutChange ==
    /\ ~Due
    /\ Held(dockPanels) /= {}
    /\ \E a \in Arrangements \ {arrangement} :
          /\ arrangement' = a
          /\ NotifyLayoutChange(dockPanels, a)
    /\ UNCHANGED <<dockPanels, disposableRef, subs, loaded, boardVars, otherVars>>

\* The callback saveLayout gave to setTimeout runs: it writes the layout the
\* panel manager has now.
TimerFire ==
    /\ \E tm \in timers :
          /\ tm.remaining = 0
          /\ timers' = timers \ {tm}
    /\ storage' = JSONStringify(toJSON(dockPanels, arrangement))
    /\ writesInBurst' = writesInBurst + 1
    /\ UNCHANGED <<dockPanels, arrangement, saveTimeoutRef, disposableRef, subs, loaded,
                   sinceCall, burstCalls, cancelledBy, clearedSince, boardVars, otherVars>>

\* Time passes, up to the next timer's due time.
Advance ==
    /\ ~Due
    /\ timers' = {[tm EXCEPT !.remaining = @ - Tick] : tm \in timers}
    /\ sinceCall' = Min(sinceCall + Tick, LongAgo)
    /\ UNCHANGED <<dockVars, saveTimeoutRef, disposableRef, subs, loaded,
                   burstCalls, writesInBurst, cancelledBy, clearedSince, boardVars, otherVars>>

LoadLayout ==
    /\ ~Due
    /\ loaded' = [input |-> storage, result |-> loadLayout(storage)]
    /\ UNCHANGED <<dockVars, saveTimeoutRef, timers, disposableRef, subs,
                   hookHistory, boardVars, otherVars>>

\* clearLayout(): localStorage.removeItem(STORAGE_KEY).
ClearLayout ==
    /\ ~Due
    /\ storage' = JNull
    /\ clearedSince' = TRUE
    /\ UNCHANGED <<dockPanels, arrangement, hookVars, sinceCall, burstCalls, writesInBurst,
                   cancelledBy, boardVars, otherVars>>

\* setupAutoSave(api): disposes the subscription disposableRef holds, if any,
\* subscribes anew and keeps the new subscription in disposableRef.
SetupAutoSave ==
    /\ ~Due
    /\ \E i \in SubIds :
          /\ subs[i] = "none"
          /\ \A j \in 1..(i - 1) : subs[j] /= "none"
          /\ subs' = [j \in SubIds |->
                        IF j = i THEN "active"
                        ELSE IF j = disposableRef THEN "disposed"
                        ELSE subs[j]]
          /\ disposableRef' = i
    /\ UNCHANGED <<dockVars, saveTimeoutRef, timers, loaded, hookHistory,
                   boardVars, otherVars>>

\* The function the i-th setupAutoSave call returned: clears the pending
\* timer, disposes its own subscription, sets disposableRef.current = null.
Detach ==
    /\ ~Due
    /\ \E i \in SubIds :
          /\ subs[i] /= "none"
          /\ timers' = cleanupTimers(saveTimeoutRef, timers)
          /\ subs' = [subs EXCEPT ![i] = "disposed"]
          /\ disposableRef' = 0
          /\ cancelledBy' = i
    /\ UNCHANGED <<dockVars, saveTimeoutRef, loaded, sinceCall, burstCalls,
                   writesInBurst, clearedSince, boardVars, otherVars>>

(***************************************************************************)
(* ActionBoard: loading, default layout, onReady, the persistence effect.  *)
(***************************************************************************)
MountIds == 1..MaxMounts

\* ActionBoard's loadLayout with its catch left out.
ActionBoard_loadLayoutUncaught(saved) ==
    IF Truthy(saved) THEN JSONParse(saved) ELSE Return(JNull)

\* ActionBoard's own loadLayout: saved ? JSON.parse(saved) : null, with what
\* JSON.parse throws caught. It checks nothing of the parsed value.
ActionBoard_loadLayout(saved) ==
    IF Truthy(saved)
    THEN LET parsed == JSONParse(saved)
         IN  IF parsed.kind = "throw" THEN Return(JNull) ELSE parsed
    ELSE Return(JNull)

\* api.addPanel for each id in turn; the first one that throws ends it.
RECURSIVE AddPanels(_, _)
AddPanels(panels, ids) ==
    IF ids = <<>>
    THEN [kind |-> "return", panels |-> panels]
    ELSE LET r == addPanel(panels, Head(ids))
         IN  IF r.kind = "throw" THEN r ELSE AddPanels(r.panels, Tail(ids))

\* createDefaultLayout(api): main-workspace first, then the DEFAULT_PANELS.
createDefaultLayout(panels) == AddPanels(panels, <<MAIN_WORKSPACE>> \o DEFAULT_PANELS)

\* `restore` records how the restore attempt before it went.
DefaultConstruction(panels, a, restore) ==
    LET r == createDefaultLayout(panels)
    IN  [outcome |-> IF r.kind = "return" THEN "default" ELSE "threw",
         panels |-> r.panels, arrangement |-> a, restore |-> restore]

\* onReady(event): the ways it can end on a panel manager that holds
\* `panels`, with `saved` in localStorage.
onReady(panels, a, saved) ==
    LET result == ActionBoard_loadLayout(saved)
    IN  IF result.kind = "throw"
        THEN {[outcome |-> "threw", panels |-> panels, arrangement |-> a,
               restore |-> "none"]}
        ELSE IF Truthy(result.value)
        THEN {IF r.kind = "return"
              THEN [outcome |-> "restored", panels |-> r.panels,
                    arrangement |-> r.arrangement, restore |-> "returned"]
              ELSE DefaultConstruction(r.panels, r.arrangement, "threw") :
                 r \in fromJSON(panels, a, result.value)}
        ELSE {DefaultConstruction(panels, a, "none")}

OnReady ==
    /\ onReadyCalls < MaxMounts
    /\ \E r \in onReady(dockPanels, arrangement, storage) :
          /\ dockPanels' = r.panels
          /\ arrangement' = r.arrangement
          /\ onReadyResult' = [input |-> storage, outcome |-> r.outcome,
                                restore |-> r.restore]
          /\ IF r.panels /= dockPanels \/ r.arrangement /= arrangement
             THEN NotifyLayoutChange(r.panels, r.arrangement)
             ELSE UNCHANGED <<storage, saveTimeoutRef, timers, hookHistory>>
    /\ apiRef' = TRUE
    /\ onReadyCalls' = onReadyCalls + 1
    /\ UNCHANGED <<disposableRef, subs, loaded, boardSubs, otherVars>>

\* The persistence effect with its subscription left out.
subscribeAutoSaveNever(api) == "skipped"

\* What one run of the persistence effect leaves behind: without an api it
\* returns at once, else it holds a subscription to onDidLayoutChange.
subscribeAutoSave(api) == IF api THEN "active" ELSE "skipped"

\* The body of the persistence effect: without an api it does nothing, else
\* it subscribes to onDidLayoutChange.
PersistenceEffect ==
    /\ \E i \in MountIds :
          /\ boardSubs[i] = "none"
          /\ \A j \in 1..(i - 1) : boardSubs[j] /= "none"
          /\ boardSubs' = [boardSubs EXCEPT ![i] = subscribeAutoSave(apiRef)]
    /\ UNCHANGED <<dockVars, hookVars, hookHistory, apiRef, onReadyCalls,
                   onReadyResult, otherVars>>

\* The cleanup the persistence effect returned: disposable.dispose().
EffectCleanup ==
    /\ \E i \in MountIds :
          /\ boardSubs[i] = "active"
          /\ boardSubs' = [boardSubs EXCEPT ![i] = "disposed"]
    /\ UNCHANGED <<dockVars, hookVars, hookHistory, apiRef, onReadyCalls,
                   onReadyResult, otherVars>>

(***************************************************************************)
(* ActionBoard mounted by React.  DockviewReact, the child, creates the    *)
(* panel manager and calls onReady from its own mount effect; React runs   *)
(* the effects of a child before those of its parent, so the persistence   *)
(* effect of ActionBoard runs in the same commit, after onReady.  An       *)
(* onReady that throws ends the mount: the persistence effect leaves       *)
(* nothing behind.                                                         *)
(***************************************************************************)
MountBoard ==
    /\ onReadyCalls < MaxMounts
    /\ dockPanels = NoPanels
    /\ ActiveBoardSubs = {}
    /\ onReadyResult /= Null => onReadyResult.outcome /= "threw"
    /\ \E r \in onReady(NoPanels, 0, storage) :
          /\ dockPanels' = r.panels
          /\ arrangement' = r.arrangement
          /\ onReadyResult' = [input |-> storage, outcome |-> r.outcome,
                                restore |-> r.restore]
          /\ IF r.panels /= dockPanels \/ r.arrangement /= arrangement
             THEN NotifyLayoutChange(r.panels, r.arrangement)
             ELSE UNCHANGED <<storage, saveTimeoutRef, timers, hookHistory>>
          /\ \E i \in MountIds :
                /\ boardSubs[i] = "none"
                /\ \A j \in 1..(i - 1) : boardSubs[j] /= "none"
                /\ boardSubs' = [boardSubs EXCEPT ![i] =
                                    IF r.outcome = "threw" THEN "skipped"
                                    ELSE subscribeAutoSave(TRUE)]
    /\ apiRef' = TRUE
    /\ onReadyCalls' = onReadyCalls + 1
    /\ UNCHANGED <<disposableRef, subs, loaded, otherVars>>

\* ActionBoard unmounts: the cleanup of the persistence effect disposes the
\* subscription and the unmount effect disposes the panel manager.
UnmountBoard ==
    /\ apiRef
    /\ ActiveBoardSubs /= {}
    /\ boardSubs' = [i \in MountIds |->
                        IF boardSubs[i] = "active" THEN "disposed" ELSE boardSubs[i]]
    /\ dockPanels' = NoPanels
    /\ arrangement' = 0
    /\ UNCHANGED <<storage, hookVars, hookHistory, apiRef, onReadyCalls,
                   onReadyResult, otherVars>>

(***************************************************************************)
(* Initial states of the layout variables.                                 *)
(***************************************************************************)
InitHook ==
    /\ saveTimeoutRef = 0
    /\ timers = {}
    /\ disposableRef = 0
    /\ subs = [i \in SubIds |-> "none"]
    /\ loaded = Null
    /\ sinceCall = LongAgo
    /\ burstCalls = 0
    /\ writesInBurst = 0
    /\ cancelledBy = 0
    /\ clearedSince = FALSE

InitBoard ==
    /\ apiRef = FALSE
    /\ boardSubs = [i \in MountIds |-> "none"]
    /\ onReadyCalls = 0
    /\ onReadyResult = Null

\* The hook at work on a panel manager that holds the default panels.
InitLayout ==
    /\ storage \in StoredBlobs
    /\ dockPanels = OnePanelEach(PanelIds)
    /\ arrangement = 0
    /\ InitHook
    /\ InitBoard

\* The controller before DockviewReact is ready: the manager holds nothing.
InitController ==
    /\ storage \in StoredBlobs
    /\ dockPanels = NoPanels
    /\ arrangement = 0
    /\ InitHook
    /\ InitBoard

IdleLayout ==
    /\ storage = JNull
    /\ dockPanels = NoPanels
    /\ arrangement = 0
    /\ InitHook
    /\ InitBoard

\* The constructor: every configured server starts disconnected.
\* The service as its constructor leaves it.
InitService ==
    /\ servers = [id \in ServerIds |->
                    [status |-> "disconnected", lastChecked |-> Undefined, error |-> Undefined]]
    /\ listeners = {}
    /\ lastSeen = [l \in Listeners |-> Null]
    /\ checks = {}
    /\ checkCalls = [k \in CheckCallers |-> [kind |-> "none", state |-> "idle"]]
    /\ settled = Null
    /\ notified = [l \in Listeners |-> 0]

InitStatus == InitService /\ history = "none"

\* The same service, with one of the two histories kept.
InitObserved == InitService /\ history \in {"outcomes", "calls"}

InitSearch ==
    /\ searchResults = Null
    /\ isSearching = FALSE
    /\ hippocampConnected = FALSE
    /\ abortControllerRef = 0
    /\ abortedControllers = {}
    /\ searchPending = {}
    /\ nextSearchId = 1
    /\ searchRequests = 0

\* The hook after its first render.
MessagesMounted ==
    /\ messages = <<>>
    /\ ccIsLoading = TRUE
    /\ ccIsConnected = FALSE
    /\ ccError = Null
    /\ isMountedRef = TRUE
    /\ fetchPending = [channel \in Channels |-> 0]
    /\ fetchesStarted = 0
    /\ getMessagesReturned = Null

\* The backend holds any records, in any order.
InitMessages == MessagesMounted /\ backendRecords \in SeqsUpTo(WireRecords, MaxMsgs)

IdleMessages == MessagesMounted /\ backendRecords = <<>>

NextSearch == Search \/ SearchMemoriesReturns \/ ClearSearch

InitSpecSearch == InitSearch /\ IdleMessages /\ InitStatus /\ IdleLayout /\ InitSend /\ InitClient /\ InitPoll

SpecSearch == InitSpecSearch /\ [][NextSearch]_vars

\* C1: when search(q2) is issued while search(q1) is still pending, q1's
\* response is never delivered: every call whose response is delivered to
\* the search-results state is the most recently issued call.
C1_OnlyLatestSearchDelivered ==
    [][\A c \in searchPending \ searchPending' : c.id = nextSearchId - 1]_vars

NextMessages == FetchMessages \/ GetMessagesReturns \/ Unmount

InitSpecMessages == InitSearch /\ InitMessages /\ InitStatus /\ IdleLayout /\ InitSend /\ InitClient /\ InitPoll

SpecMessages == InitSpecMessages /\ [][NextMessages]_vars

\* No valid timestamp precedes an earlier valid one.
SortedByTimestamp(s) ==
    \A i, j \in 1..Len(s) :
        (i < j /\ s[i].timestamp.valid /\ s[j].timestamp.valid)
            => s[i].timestamp.t <= s[j].timestamp.t

\* C2: for every channel, every set of backend records and every order the
\* backend delivers them in, the sequence getMessages returns is sorted
\* non-decreasing by timestamp.
C2_GetMessagesSorted ==
    getMessagesReturned /= Null => SortedByTimestamp(getMessagesReturned.value)

\* The same statement for responses whose timestamps all parse (kept as a
\* cross-check of the sort itself).
AllTimestampsValid(s) == \A i \in 1..Len(s) : s[i].timestamp.valid

C2_SortedWhenParseable ==
    (getMessagesReturned /= Null /\ AllTimestampsValid(getMessagesReturned.value))
        => SortedByTimestamp(getMessagesReturned.value)

NextStatus ==
    \/ CheckServer
    \/ CheckAllServers
    \/ HealthCheckReturns
    \/ Subscribe
    \/ Unsubscribe

InitSpecStatus == InitSearch /\ IdleMessages /\ InitStatus /\ IdleLayout /\ InitSend /\ InitClient /\ InitPoll

SpecStatus == InitSpecStatus /\ [][NextStatus]_vars

\* The service under single checkServer calls, its histories kept.
NextObserved == CheckServer \/ HealthCheckReturns \/ Subscribe \/ Unsubscribe

InitSpecObserved == InitSearch /\ IdleMessages /\ InitObserved /\ IdleLayout /\ InitSend /\ InitClient /\ InitPoll

SpecObserved == InitSpecObserved /\ [][NextObserved]_vars

\* The probes alone, no listener subscribed. Every request of a health check
\* carries AbortSignal.timeout(5000), so each check in flight settles.
NextProbes == CheckServer \/ CheckAllServers \/ HealthCheckReturns

InitSpecProbes ==
    InitSearch /\ IdleMessages /\ InitStatus /\ IdleLayout /\ InitSend /\ InitClient /\ InitPoll

FairSpecProbes ==
    /\ InitSpecProbes
    /\ [][NextProbes]_vars
    /\ \A c \in AllChecks : WF_vars(HealthCheckSettles(c))

\* The memory search client under calls of its methods, one at a time.
NextClient == ClientCall \/ ClientResponds

InitSpecClient == InitSearch /\ IdleMessages /\ InitStatus /\ IdleLayout /\ InitSend /\ InitClient /\ InitPoll

SpecClient == InitSpecClient /\ [][NextClient]_vars

\* The two polling hooks through mounts, renders, timer ticks and teardowns.
NextPoll == PollMount \/ PollRerender \/ PollTeardown \/ PollTick

InitSpecPoll ==
    InitSearch /\ IdleMessages /\ InitStatus /\ IdleLayout /\ InitSend /\ InitClient /\ InitPoll

SpecPoll == InitSpecPoll /\ [][NextPoll]_vars

FinalStatuses == {"connected", "error", "disconnected"}

\* C3: checkAllServers never raises, whatever the outcomes of the probes: no
\* checkAllServers call rejects, and it resolves only when every check it
\* started has settled; the check that settles records a final status in
\* its own probe and touches no other probe, and every other check in
\* flight stays in flight to record its own result.
C3_CheckAllNeverRaises ==
    /\ [](\A k \in CheckCallers :
            checkCalls[k].kind = "checkAllServers"
                => /\ checkCalls[k].state /= "rejected"
                   /\ checkCalls[k].state = "resolved"
                         => \A c \in checks : c.owner /= k)
    /\ [][\A c \in checks \ checks' :
             /\ \A t \in ServerIds \ {c.server} : servers'[t] = servers[t]
             /\ servers'[c.server].status \in FinalStatuses
             /\ (servers'[c.server].error /= Undefined)
                    <=> (servers'[c.server].status = "disconnected")
             /\ checks' = checks \ {c}]_vars

\* A checkAllServers call has resolved with one probe failed (its error
\* recorded) and another connected.
C3_Witness ==
    \E k \in CheckCallers, s, t \in ServerIds :
        /\ checkCalls[k] = [kind |-> "checkAllServers", state |-> "resolved"]
        /\ checks = {}
        /\ servers[s].status = "disconnected" /\ servers[s].error = "The operation timed out"
        /\ servers[t].status = "connected"

ConnectedIds == {id \in ServerIds : servers[id].status = "connected"}

NextLayout ==
    \/ SaveLayoutCall
    \/ LayoutChange
    \/ TimerFire
    \/ Advance
    \/ LoadLayout
    \/ ClearLayout
    \/ SetupAutoSave
    \/ Detach

InitSpecLayout == InitSearch /\ IdleMessages /\ InitStatus /\ InitLayout /\ InitSend /\ InitClient /\ InitPoll

SpecLayout == InitSpecLayout /\ [][NextLayout]_vars

NextBoard == OnReady \/ PersistenceEffect \/ EffectCleanup \/ LayoutChange

InitSpecBoard == InitSearch /\ IdleMessages /\ InitStatus /\ InitController /\ InitSend /\ InitClient /\ InitPoll

SpecBoard == InitSpecBoard /\ [][NextBoard]_vars

\* One browser session of ActionBoard: mounts, layout changes, unmounts.
NextSession == MountBoard \/ LayoutChange \/ UnmountBoard

InitSpecSession == InitSearch /\ IdleMessages /\ InitStatus /\ InitController /\ InitSend /\ InitClient /\ InitPoll

SpecSession == InitSpecSession /\ [][NextSession]_vars

\* The steps in which the hook writes the layout to storage.
HookWrites == writesInBurst' > writesInBurst

\* C5: a burst of saveLayout calls, each less than DEBOUNCE_MS after the one
\* before, gives exactly one write to storage (while no detach function
\* cancelled the pending write): none before the window has passed since
\* the last call, one once it has passed; the write happens DEBOUNCE_MS
\* after the last call of the burst and writes the layout the panel manager
\* has at that moment.
C5_DebouncedSave ==
    /\ [](/\ writesInBurst <= 1
          /\ writesInBurst = 1 => sinceCall >= DEBOUNCE_MS
          /\ (burstCalls > 0 /\ cancelledBy = 0 /\ sinceCall > DEBOUNCE_MS)
                => writesInBurst = 1
          /\ (burstCalls > 0 /\ cancelledBy = 0 /\ sinceCall <= DEBOUNCE_MS
                /\ writesInBurst = 0)
                => \E tm \in timers : tm.remaining = DEBOUNCE_MS - sinceCall)
    /\ [][HookWrites =>
            /\ sinceCall = DEBOUNCE_MS
            /\ storage' = JSONStringify(toJSON(dockPanels, arrangement))]_vars

\* A burst of several calls and layout changes has been written once, and
\* what storage holds is the arrangement the burst ended with.
C5_Witness ==
    /\ burstCalls = 2
    /\ writesInBurst = 1
    /\ arrangement = 2
    /\ storage = JSONStringify(toJSON(dockPanels, 2))

\* Whether the parsed blob is an object that has the property.
LacksGridOrPanels(v) ==
    \/ v.t /= "object"
    \/ v.grid.t = "absent"
    \/ v.panels.t = "absent"

\* C6: loadLayout returns null, and does not throw, whenever nothing is
\* stored, the stored text is no JSON ("{not json"), or it parses to a
\* value without a grid or without a panels entry ({}, {grid:{}},
\* {panels:[]}).
C6_LoadRejectsMalformed ==
    loaded /= Null =>
        /\ loaded.result.kind = "return"
        /\ (\/ loaded.input = JNull
            \/ JSONParse(loaded.input).kind = "throw"
            \/ LacksGridOrPanels(JSONParse(loaded.input).value))
              => loaded.result = Return(JNull)

\* loadLayout has read {grid:{}} and returned null.
C6_Witness ==
    /\ loaded /= Null
    /\ loaded.input = TextOf(JObj(JEmptyObject, JAbsent))
    /\ loaded.result = Return(JNull)

\* C9: after any sequence of setupAutoSave calls and calls of the detach
\* functions they returned, at most one layout-change subscription of the
\* hook is active.
C9_AtMostOneSubscription == Cardinality(ActiveHookSubs) <= 1

\* C10: once a detach function has run, its subscription is cancelled and no
\* debounced write is pending; the hook writes nothing to storage after it
\* until saveLayout is called again.
C10_DetachCancels ==
    /\ [](cancelledBy /= 0 => subs[cancelledBy] = "disposed" /\ timers = {})
    /\ [][HookWrites => cancelledBy = 0]_vars

\* A detach function ran while a write was pending, and the window has
\* passed since without a write.
C10_Witness ==
    /\ cancelledBy /= 0
    /\ burstCalls > 0
    /\ sinceCall > DEBOUNCE_MS
    /\ writesInBurst = 0

\* The stored text is no JSON.
Corrupted(blob) == blob.t = "text" /\ JSONParse(blob).kind = "throw"

\* C7: when the controller starts with a corrupted persisted layout string,
\* onReady ends without an exception and with the default layout built:
\* the panel manager holds main-workspace, agents, federation and
\* corpus-callosum, each exactly once.
C7_CorruptedStartGivesDefault ==
    (onReadyCalls = 1 /\ Corrupted(onReadyResult.input))
        => /\ onReadyResult.outcome = "default"
           /\ \A id \in PanelIds : dockPanels[id] = 1

\* The controller started with "{not json" stored and built the default layout.
C7_Witness ==
    /\ onReadyCalls = 1
    /\ onReadyResult.input = RawText("{not json")
    /\ onReadyResult.outcome = "default"
    /\ dockPanels = OnePanelEach(PanelIds)

NextSend ==
    \/ SendMessage
    \/ SendMessageReturns
    \/ GetMessagesReturns
    \/ Unmount

InitSpecSend == InitSearch /\ IdleMessages /\ InitStatus /\ IdleLayout /\ InitSend /\ InitClient /\ InitPoll

SpecSend == InitSpecSend /\ [][NextSend]_vars

\* The steps in which a sendMessage call of the hook settles.
SendSettles == \E c \in sendPending : sendPending' = sendPending \ {c}

\* C11: when the backend answers a send with a non-2xx status or the
\* transport fails, sendMessage resolves to false and does not throw, no
\* fetchMessages call is started, the hook's messages stay as they were and
\* the backend holds no record of the message.
C11_FailedSendNoEffect ==
    [][(SendSettles /\ lastSend'.outcome /= "ok")
          => /\ lastSend'.result = [kind |-> "return", value |-> FALSE]
             /\ fetchPending' = fetchPending
             /\ messages' = messages
             /\ backendRecords' = backendRecords]_vars

\* A send failed with a non-2xx status while the hook showed a message
\* fetched earlier: it resolved to false and no fetch is under way.
C11_Witness ==
    /\ lastSend /= Null
    /\ lastSend.outcome = "http_error"
    /\ lastSend.result = [kind |-> "return", value |-> FALSE]
    /\ messages /= <<>>
    /\ \A ch \in Channels : fetchPending[ch] = 0

\* The steps in which a fetchMessages call gets the answer it awaits.
PollSettles ==
    \E ch \in Channels : fetchPending' = [fetchPending EXCEPT ![ch] = @ - 1]

\* C12: a message poll that fails (transport failure or non-2xx response)
\* never clears the messages fetched before: the hook's messages after the
\* failed poll equal its messages before it.
C12_FailedPollKeepsMessages ==
    [][(PollSettles /\ getMessagesReturned'.outcome /= "ok")
          => messages' = messages]_vars

\* C13: after a poll whose request failed in transport the mounted hook's
\* isConnected is false; a failed request never sets it to true.
C13_FailedPollDisconnects ==
    [][(PollSettles /\ isMountedRef /\ getMessagesReturned'.outcome = "network_error")
          => ccIsConnected' = FALSE]_vars

\* C14: the lobe identifiers survive the write path and the read path: a
\* message the hook shows for a send it made is from CURRENT_LOBE and to the
\* lobe the caller named (ember, code or jim).
C14_LobeRoundTrip ==
    \A i \in DOMAIN messages : \A r \in sentTo :
        (r.id = messages[i].id /\ r.to_lobe \in LobeIds)
            => /\ messages[i].from_lobe = CURRENT_LOBE
               /\ messages[i].to_lobe = r.to_lobe

\* The steps that are a search() call with an empty or whitespace-only
\* query: a call is made and none is left waiting for the backend.
EmptySearch == nextSearchId' = nextSearchId + 1 /\ searchPending' = searchPending

\* C15: a search whose query is empty or whitespace-only issues no network
\* request and at once yields the empty result {memories: [], total: 0,
\* query}.
C15_EmptyQueryEmptyResult ==
    [][EmptySearch =>
          /\ searchRequests' = searchRequests
          /\ \E q \in Queries :
                /\ Trim(q) = ""
                /\ searchResults' =
                      [tag |-> "result", memories |-> <<>>, total |-> 0, query |-> q]]_vars

\* The part of C15 the code keeps: no request is issued and no call is left
\* waiting.
C15_EmptyQueryNoRequest ==
    [][EmptySearch => searchRequests' = searchRequests /\ isSearching' = isSearching]_vars


\* C16: once onReady has ended with a restored or a default layout, the
\* subscription of the persistence effect is in place for as long as the
\* panel manager holds panels, and every layout change made from then on
\* writes the serialized layout of that moment to localStorage.
Initialized ==
    /\ onReadyResult /= Null
    /\ onReadyResult.outcome \in {"restored", "default"}

C16_AutoSaveStaysAttached ==
    /\ []((Initialized /\ Held(dockPanels) /= {}) => ActiveBoardSubs /= {})
    /\ [][(Initialized /\ dockPanels' = dockPanels /\ arrangement' /= arrangement)
             => storage' = JSONStringify(toJSON(dockPanels, arrangement'))]_vars

C16_Witness ==
    /\ Initialized
    /\ onReadyCalls = 2
    /\ arrangement /= 0
    /\ storage /= onReadyResult.input
    /\ storage = JSONStringify(toJSON(dockPanels, arrangement))


Observed(l, id) == lastSeen[l].value[id].status

\* C18: the step of checkServer that starts the request of a check has set
\* the probe to `connecting` and has called every subscribed listener with
\* a snapshot that shows it; a final status is written to a probe only by
\* the step in which a request on that probe, started earlier, settles.
C18_ConnectingBeforeFinal ==
    [][/\ \A c \in checks' \ checks :
             /\ servers'[c.server].status = "connecting"
             /\ \A l \in listeners :
                   /\ lastSeen'[l].tag = "servers"
                   /\ lastSeen'[l].value[c.server].status = "connecting"
       /\ \A id \in ServerIds :
             (servers'[id] /= servers[id] /\ servers'[id].status \in FinalStatuses)
                => \E c \in checks \ checks' :
                      /\ c.server = id
                      /\ \A l \in listeners :
                            lastSeen'[l].value[id] = servers'[id]]_vars

C18_Witness ==
    \E l \in listeners, c \in checks, id \in ServerIds :
        /\ servers[c.server].status = "connecting"
        /\ Observed(l, c.server) = "connecting"
        /\ servers[id].status = "error"
        /\ Observed(l, id) = "error"


\* The status each outcome of the request stands for.
StatusFor(outcome) ==
    CASE outcome = "ok" -> "connected"
      [] outcome = "http_error" -> "error"
      [] OTHER -> "disconnected"

RequestFailed(outcome) == outcome \in {"timeout", "network_error"}

\* C19: when a check settles, checkServer does not throw and records in the
\* probe `connected` for a 2xx response, `error` for another response and
\* `disconnected` for a timeout or a network failure, and with
\* `disconnected` it records the message of the error the request failed
\* with.
C19_StatusFromOutcome ==
    [][history = "outcomes" =>
         \A c \in checks \ checks' :
            /\ settled'.server = c.server
            /\ settled'.ended = "result"
            /\ checkCalls'[c.owner].state /= "rejected"
            /\ servers'[c.server].status = StatusFor(settled'.outcome)
            /\ RequestFailed(settled'.outcome)
                  => servers'[c.server].error = ErrorMessage(settled'.outcome)]_vars

\* C19, amended: as above, but the message recorded with `disconnected` is
\* the request error's own message only for hippocamp-console, fireworks-ws
\* and matrix-synapse; for neo4j-ep1 and neo4j-nessie it is the fixed text
\* "Cannot reach via Hippocamp API". Without a failed request no error is
\* recorded.
C19_StatusFromOutcomeAmended ==
    [][history = "outcomes" =>
         \A c \in checks \ checks' :
            /\ settled'.server = c.server
            /\ settled'.ended = "result"
            /\ checkCalls'[c.owner].state /= "rejected"
            /\ servers'[c.server].status = StatusFor(settled'.outcome)
            /\ servers'[c.server].error =
                  IF ~RequestFailed(settled'.outcome) THEN Undefined
                  ELSE IF c.server \in {"neo4j-ep1", "neo4j-nessie"}
                       THEN "Cannot reach via Hippocamp API"
                       ELSE ErrorMessage(settled'.outcome)]_vars

C19_Witness ==
    /\ settled /= Null
    /\ settled.server = "neo4j-ep1"
    /\ settled.outcome = "timeout"
    /\ servers["neo4j-ep1"].status = "disconnected"
    /\ servers["neo4j-ep1"].error = "Cannot reach via Hippocamp API"
    /\ \E id \in ServerIds :
          servers[id].status = "disconnected" /\ servers[id].error = "Failed to fetch"
    /\ \E id \in ServerIds : servers[id].status = "error"


\* The number of changes a step makes to the probe map.
Mutations == IF servers' /= servers THEN 1 ELSE 0

\* C20: a listener is called once, with the probes as they are, by the step
\* that subscribes it; while it stays subscribed it is called once for
\* every change of a probe, with the changed probes, and by no other step;
\* a listener that is not subscribed is called by no step, the step that
\* unsubscribes it included. So a step that subscribes or unsubscribes one
\* listener calls no other listener and leaves what the others saw.
C20_ListenersIndependent ==
    /\ [](\A l \in Listeners \ listeners : lastSeen[l] = Null /\ notified[l] = 0)
    /\ [][history = "calls" =>
            /\ \A l \in listeners' \ listeners :
                  /\ notified'[l] = 1
                  /\ lastSeen'[l] = [tag |-> "servers", value |-> servers]
            /\ \A l \in listeners \cap listeners' :
                  /\ notified'[l] = Mutations
                  /\ lastSeen'[l] = IF Mutations > 0
                                    THEN [tag |-> "servers", value |-> servers']
                                    ELSE lastSeen[l]
            /\ \A l \in Listeners \ listeners' : notified'[l] = 0]_vars

C20_Witness ==
    /\ history = "calls"
    /\ listeners = {"l1"}
    /\ notified = [l \in Listeners |-> IF l = "l1" THEN 1 ELSE 0]
    /\ lastSeen["l1"] = [tag |-> "servers", value |-> servers]
    /\ \E id \in ServerIds : servers[id].status = "connected"
    /\ \E id \in ServerIds : servers[id].status = "connecting"


\* A request of the settled call that did not get a 2xx response.
RequestFailedAt(n) == clientLast.trail[n].kind /= "ok"

\* C21: a getByCategory call whose primary request fails, by a non-2xx
\* response or by a transport failure, sends the secondary request before it
\* settles, and settles with the empty list only when that one failed too.
C21_FallbackOnPrimaryFailure ==
    (clientLast /= Null /\ clientLast.method = "getByCategory" /\ RequestFailedAt(1))
        => /\ Len(clientLast.trail) = 2
           /\ clientLast.trail[2].request = "secondary"
           /\ RequestFailedAt(2) => clientLast.result = Resolve(JArray(<<>>))

\* The part of C21 that is about a non-2xx primary response.
C21_FallbackOnHttpError ==
    (/\ clientLast /= Null
     /\ clientLast.method = "getByCategory"
     /\ clientLast.trail[1].kind = "http_error")
        => /\ Len(clientLast.trail) = 2
           /\ clientLast.trail[2].request = "secondary"

\* What each method resolves with when it has nothing to give.
Negative(method) ==
    CASE method = "checkHealth" -> JBoolean(FALSE)
      [] method = "searchMemories" ->
            [tag |-> "result", memories |-> <<>>, total |-> 0, query |-> "a"]
      [] method \in {"getCategories", "getByCategory"} -> JArray(<<>>)
      [] method = "getConversation" -> JNull

\* Bodies that are what no method expects: no JSON, null, a string.
UnexpectedBodies == {NotJson, JNull, JString("oops")}

\* C22: a call whose last request ended in a transport failure, a non-2xx
\* status or, for the methods that read the body, an unexpected body
\* resolves with the negative value of its method; no call rejects.
C22_NegativeOnEveryFailure ==
    clientLast /= Null
        => /\ clientLast.result.kind = "resolve"
           /\ (\/ RequestFailedAt(Len(clientLast.trail))
               \/ /\ clientLast.method /= "checkHealth"
                  /\ clientLast.body \in UnexpectedBodies)
                 => clientLast.result = Resolve(Negative(clientLast.method))

\* The part of C22 that is about transport failures and non-2xx statuses.
C22_NegativeOnFailedRequest ==
    (clientLast /= Null /\ RequestFailedAt(Len(clientLast.trail)))
        => clientLast.result = Resolve(Negative(clientLast.method))


\* Whether the value is an object with a grid and with a panel list that
\* names at least one panel.
HasGridAndPanels(v) ==
    /\ v.t = "object"
    /\ Truthy(v.grid)
    /\ v.panels.t = "panels"
    /\ v.panels.ids /= {}

\* C23: loadLayout returns a snapshot only for a stored text that parses to
\* an object with a grid and a non-empty panel list; for every other stored
\* value, a grid with an empty panel list included, it returns null.
C23_LoadRequiresPanels ==
    (loaded /= Null /\ loaded.result /= Return(JNull))
        => /\ JSONParse(loaded.input).kind = "return"
           /\ HasGridAndPanels(JSONParse(loaded.input).value)


\* C24: the text a debounced save writes for a panel manager that holds at
\* least one panel loads back, through loadLayout, to the snapshot that was
\* written: a loadLayout call made after the write, storage not cleared
\* since, returns a snapshot, not null, whose JSON text is the stored one
\* and which is a layout of the panels the manager holds.
C24_SaveLoadRoundTrip ==
    /\ [][(HookWrites /\ Held(dockPanels) /= {})
            => loadLayout(storage') = Return(toJSON(dockPanels, arrangement))]_vars
    /\ [][(loaded' /= loaded /\ writesInBurst >= 1 /\ storage /= JNull)
            => /\ loaded'.result.kind = "return"
               /\ loaded'.result.value /= JNull
               /\ JSONStringify(loaded'.result.value) = storage
               /\ \E a \in Arrangements :
                     loaded'.result.value = toJSON(dockPanels, a)]_vars

C24_Witness ==
    /\ loaded /= Null
    /\ writesInBurst = 1
    /\ arrangement = 1
    /\ loaded.input = storage
    /\ storage = JSONStringify(toJSON(dockPanels, 1))
    /\ loaded.result = Return(toJSON(dockPanels, 1))


\* C25: while a polling hook is torn down none of its interval timers is
\* live and its interval callback has never run in a torn-down state,
\* whatever options the renders before the teardown brought.
C25_NoPollAfterTeardown ==
    \A h \in PollHooks :
        /\ ~latePolls[h]
        /\ hookLife[h] = "torn" => \A tm \in intervals : tm.hook /= h

C25_Witness ==
    \E h \in PollHooks :
        /\ hookLife[h] = "torn"
        /\ hookRenders[h] = 3
        /\ pollIntervalRef[h] = 3
        /\ pollRuns[h] = 2


\* C26: at every moment at most one debounced-save timer of the hook is
\* pending, and it is the one saveTimeoutRef holds: a saveLayout call
\* replaces the pending timer, it does not add a second one.
C26_AtMostOnePendingTimer ==
    /\ Cardinality(timers) <= 1
    /\ \A tm \in timers : tm.id = saveTimeoutRef

\* A second saveLayout call of a burst has been made and one timer is
\* pending, with the whole window to run.
C26_Witness ==
    /\ burstCalls = 2
    /\ sinceCall = 0
    /\ timers = {[id |-> saveTimeoutRef, remaining |-> DEBOUNCE_MS]}


\* C27: after every step, what each subscribed listener was last called
\* with is the whole probe map as the step left it, the same for every
\* listener; and the step in which a check settles gives the probe the
\* status, the lastChecked and the error of that one result together (an
\* error with `disconnected` and with no other status), however the checks
\* of the poll and of the user interleave.
C27_NotifyAtomic ==
    [][/\ \A l \in listeners' :
             lastSeen'[l] = [tag |-> "servers", value |-> servers']
       /\ \A c \in checks \ checks' :
             /\ servers'[c.server].status \in FinalStatuses
             /\ servers'[c.server].lastChecked = ADate
             /\ servers'[c.server].error /= Undefined
                   <=> servers'[c.server].status = "disconnected"]_vars

\* Both listeners hold the same snapshot while a check of the poll and a
\* check of the user overlap on one probe, one of them settled as an error
\* after the probe had been disconnected.
C27_Witness ==
    /\ listeners = Listeners
    /\ \A l \in Listeners : lastSeen[l] = [tag |-> "servers", value |-> servers]
    /\ \E id \in ServerIds :
          /\ servers[id] = [status |-> "error", lastChecked |-> ADate, error |-> Undefined]
          /\ \E c \in checks : c.server = id
    /\ \E id \in ServerIds : servers[id].error = "Failed to fetch"


\* C28: when the stored text parses to a value without a grid or without a
\* panels entry, onReady does not call api.fromJSON with it and ends with
\* the default layout.
C28_MalformedNeverApplied ==
    (/\ onReadyResult /= Null
     /\ JSONParse(onReadyResult.input).kind = "return"
     /\ LacksGridOrPanels(JSONParse(onReadyResult.input).value))
        => /\ onReadyResult.restore = "none"
           /\ onReadyResult.outcome = "default"


\* C29: a probe is `connecting` only while a check of it is in flight, so
\* once every check has settled no probe is `connecting`; and every probe
\* that is `connecting` gets another status later, also when checks of the
\* poll and of the user overlap on it.
C29_ConnectingIsTransient ==
    /\ [](\A id \in ServerIds :
            servers[id].status = "connecting" => \E c \in checks : c.server = id)
    /\ \A id \in ServerIds :
          (servers[id].status = "connecting") ~> (servers[id].status /= "connecting")

\* A check of the poll and a check of the user are in flight on one probe,
\* which is `connecting` after having had a final status.
C29_Witness ==
    \E id \in ServerIds :
        /\ servers[id].status = "connecting"
        /\ servers[id].lastChecked = ADate
        /\ \A k \in CheckCallers : [server |-> id, owner |-> k] \in checks


\* C30: after clearLayout, as long as saveLayout is not called again, storage
\* holds no layout and loadLayout returns absent: a write that saveLayout
\* scheduled before the clear does not bring the layout back.
C30_ClearedStaysCleared ==
    clearedSince => storage = JNull /\ loadLayout(storage) = Return(JNull)

=============================================================================
